---- MODULE Spec2Model ----
(***************************************************************************)
(* Template synchronisation engine of tcex-cli: the manifest-diffing       *)
(* Planner (build / apply) with its Hasher, ManifestStore and SafeFileOps  *)
(* collaborators, as found in tcex_cli/cli/template/planner.py.            *)
(***************************************************************************)
EXTENDS Integers, Sequences, FiniteSets, TLC

(***************************************************************************)
(* Bounds of the model.                                                    *)
(***************************************************************************)
\* file contents are 1..MaxContent
MaxContent == 2
\* project-relative POSIX keys, listed in Python's str ordering
KeyOrder == <<"app.py", "core/util.py">>
Keys == {KeyOrder[i] : i \in 1..Len(KeyOrder)}

Contents == 1..MaxContent

\* Python's None
None == <<>>

(***************************************************************************)
(* Hasher                                                                  *)
(***************************************************************************)
\* hashlib.sha256(...).hexdigest(): one digest per content, never the content
Sha256(content) == <<"sha256", content>>

Digests == {Sha256(c) : c \in Contents}
\* change tokens (last_commit): opaque, only ever compared for equality
Commits == {<<"commit", "c1">>, <<"commit", "c2">>}

\* a directory tree is a function from the paths of its files to their content
exists(tree, path) == path \in DOMAIN tree

sha256_file(tree, path) ==
    IF ~exists(tree, path) THEN None ELSE Sha256(tree[path])

(***************************************************************************)
(* Manifests                                                               *)
(***************************************************************************)
FileMeta == [last_commit : Commits, sha256 : Digests, template_path : Keys]

\* a manifest (Meta) is a dict: a function on the keys it has
Manifests ==
    {m \in UNION {[S -> FileMeta] : S \in SUBSET Keys} :
        \A k \in DOMAIN m : m[k].template_path = k}

Trees == UNION {[S -> Contents] : S \in SUBSET Keys}

KeyRank(k) == CHOOSE i \in 1..Len(KeyOrder) : KeyOrder[i] = k

\* str.__lt__ on the keys of the model
KeyLess(a, b) == KeyRank(a) < KeyRank(b)

\* tuple.__lt__ on (project_key, template_path) pairs
TupleLess(a, b) ==
    \/ KeyLess(a[1], b[1])
    \/ a[1] = b[1] /\ KeyLess(a[2], b[2])

RECURSIVE SetToSeq(_)
SetToSeq(S) ==
    IF S = {} THEN <<>>
    ELSE LET x == CHOOSE y \in S : TRUE IN <<x>> \o SetToSeq(S \ {x})

\* sorted(set of str)
sorted_keys(S) == SortSeq(SetToSeq(S), KeyLess)

\* sorted(set of tuple)
sorted_tuples(S) == SortSeq(SetToSeq(S), TupleLess)

collect_keys(template_meta_, main_meta) ==
    LET template_keys == DOMAIN template_meta_
        main_keys == DOMAIN main_meta
    IN <<sorted_keys(template_keys), sorted_keys(main_keys \ template_keys)>>

(***************************************************************************)
(* Plan                                                                    *)
(***************************************************************************)
Plan ==
    [skip |-> <<>>, auto_update |-> <<>>, prompt_user |-> <<>>,
     template_new |-> <<>>, template_removed |-> <<>>]

\* plan.<list>.append(value)
append(p, list, value) == [p EXCEPT ![list] = Append(@, value)]

(***************************************************************************)
(* Planner.build                                                           *)
(***************************************************************************)
\* variant: a new template file is always created, whatever the project has
NewFileRule_AlwaysAuto(project_path_exists) == "auto_update"

\* a key new in the template: prompt if the project already has the file
NewFileRule(project_path_exists) ==
    IF project_path_exists THEN "prompt_user" ELSE "auto_update"

\* variant: the sync state is decided on the recorded digests
SameCommit_BySha256(template_info, local_info) ==
    template_info.sha256 = local_info.sha256

\* the template has not changed this file since the last sync
SameCommit(template_info, local_info) ==
    template_info.last_commit = local_info.last_commit

\* variant: a diverged project file is updated without confirmation
HashRule_AutoUpdate(current_hash, template_info) ==
    IF current_hash = template_info.sha256 \/ current_hash = None
    THEN "skip" ELSE "auto_update"

\* variant: a file the user deleted is offered again
HashRule_AbsentPrompts(current_hash, template_info) ==
    IF current_hash = template_info.sha256 THEN "skip" ELSE "prompt_user"

\* the template changed: compare the project file with the new template digest
HashRule(current_hash, template_info) ==
    IF current_hash = template_info.sha256 \/ current_hash = None
    THEN "skip" ELSE "prompt_user"

\* variant: an existing file is always confirmed before removal
RemovalRule_NoHashCheck(current_hash, local_info) ==
    IF current_hash = None THEN "auto_update" ELSE "prompt_user"

\* variant: a removed key whose file is already gone is skipped
RemovalRule_GoneSkips(current_hash, local_info) ==
    IF current_hash = None THEN "skip"
    ELSE IF current_hash = local_info.sha256 THEN "auto_update"
    ELSE "prompt_user"

\* a key removed from the template
RemovalRule(current_hash, local_info) ==
    IF current_hash = None THEN "auto_update"
    ELSE IF current_hash = local_info.sha256 THEN "auto_update"
    ELSE "prompt_user"

\* one iteration of the loop over keys_in_template
UpdateKey(p, key, tmeta, lmeta, dest, force) ==
    LET template_info == tmeta[key]
        value == <<key, template_info.template_path>>
    IN IF force = TRUE THEN append(p, "auto_update", value)
       ELSE IF key \notin DOMAIN lmeta
       THEN append(append(p, "template_new", value),
                   NewFileRule(exists(dest, key)), value)
       ELSE IF SameCommit(template_info, lmeta[key])
       THEN append(p, "skip", value)
       ELSE append(p, HashRule(sha256_file(dest, key), template_info), value)

\* one iteration of the loop over removed_in_template
RemoveKey(p, key, lmeta, dest) ==
    LET local_info == lmeta[key]
        value == <<key, local_info.template_path>>
    IN append(append(p, "template_removed", value),
              RemovalRule(sha256_file(dest, key), local_info), value)

RECURSIVE UpdateLoop(_, _, _, _, _, _)
UpdateLoop(p, keys, tmeta, lmeta, dest, force) ==
    IF keys = <<>> THEN p
    ELSE UpdateLoop(UpdateKey(p, Head(keys), tmeta, lmeta, dest, force),
                    Tail(keys), tmeta, lmeta, dest, force)

RECURSIVE RemoveLoop(_, _, _, _)
RemoveLoop(p, keys, lmeta, dest) ==
    IF keys = <<>> THEN p
    ELSE RemoveLoop(RemoveKey(p, Head(keys), lmeta, dest), Tail(keys), lmeta, dest)

build(tmeta, lmeta, dest, force) ==
    LET ck == collect_keys(tmeta, lmeta)
    IN RemoveLoop(UpdateLoop(Plan, ck[1], tmeta, lmeta, dest, force),
                  ck[2], lmeta, dest)

(***************************************************************************)
(* Planner.build of tcv_helper.py                                          *)
(***************************************************************************)
\* a key up to and with its first '/': the empty string if it has none
Prefix(key) ==
    CASE key = "app.py" -> ""
      [] key = "core/util.py" -> "core/"

\* key.startswith(prefixes), for prefixes that end with their only '/'
startswith(key, prefixes) == Prefix(key) \in prefixes

\* the template changed the file: files under core/ and ui/ are not asked about
tcv_HashRule(key, current_hash, template_info) ==
    IF current_hash = template_info.sha256 \/ current_hash = None THEN "skip"
    ELSE IF startswith(key, {"core/", "ui/"}) THEN "auto_update"
    ELSE "prompt_user"

tcv_UpdateKey(p, key, tmeta, lmeta, dest, force) ==
    LET template_info == tmeta[key]
        value == <<key, template_info.template_path>>
    IN IF force = TRUE
       THEN append(p, "auto_update", value)
       ELSE IF key \notin DOMAIN lmeta
       THEN append(append(p, "template_new", value),
                   IF exists(dest, key) THEN "prompt_user" ELSE "auto_update",
                   value)
       ELSE IF template_info.last_commit = lmeta[key].last_commit
       THEN append(p, "skip", value)
       ELSE append(p, tcv_HashRule(key, sha256_file(dest, key), template_info), value)

tcv_RemoveKey(p, key, lmeta, dest) ==
    LET local_info == lmeta[key]
        value == <<key, local_info.template_path>>
        current_hash == sha256_file(dest, key)
    IN append(append(p, "template_removed", value),
              IF current_hash = None THEN "auto_update"
              ELSE IF current_hash = local_info.sha256 THEN "auto_update"
              ELSE "prompt_user",
              value)

RECURSIVE tcv_UpdateLoop(_, _, _, _, _, _)
tcv_UpdateLoop(p, keys, tmeta, lmeta, dest, force) ==
    IF keys = <<>> THEN p
    ELSE tcv_UpdateLoop(tcv_UpdateKey(p, Head(keys), tmeta, lmeta, dest, force),
                        Tail(keys), tmeta, lmeta, dest, force)

RECURSIVE tcv_RemoveLoop(_, _, _, _)
tcv_RemoveLoop(p, keys, lmeta, dest) ==
    IF keys = <<>> THEN p
    ELSE tcv_RemoveLoop(tcv_RemoveKey(p, Head(keys), lmeta, dest),
                        Tail(keys), lmeta, dest)

tcv_build(tmeta, lmeta, dest, force) ==
    LET ck == collect_keys(tmeta, lmeta)
    IN tcv_RemoveLoop(tcv_UpdateLoop(Plan, ck[1], tmeta, lmeta, dest, force),
                      ck[2], lmeta, dest)

(***************************************************************************)
(* SafeFileOps                                                             *)
(***************************************************************************)
\* variant: a file that exists is not written again
write_bytes_KeepsExisting(tree, path, data) ==
    [k \in DOMAIN tree \cup {path} |->
        IF k = path /\ ~exists(tree, path) THEN data ELSE tree[k]]

\* Path.write_bytes
write_bytes(tree, path, data) ==
    [k \in DOMAIN tree \cup {path} |-> IF k = path THEN data ELSE tree[k]]

\* Path.unlink
unlink(tree, path) == [k \in DOMAIN tree \ {path} |-> tree[k]]

\* variant: the directory that holds the file is removed with it
remove_file_WithParent(tree, path) ==
    IF exists(tree, path) THEN [k \in {} |-> tree[k]] ELSE tree

remove_file(tree, path) ==
    IF exists(tree, path) THEN unlink(tree, path) ELSE tree

\* variant: the destination is cleared before the source is looked at
copy_from_template_ClearsDest(template_root, key, tree, dest) ==
    IF ~exists(template_root, key)
    THEN [raised |-> TRUE, tree |-> unlink(tree, dest)]
    ELSE [raised |-> FALSE, tree |-> write_bytes(tree, dest, template_root[key])]

\* raised: FileNotFoundError; tree: the project files afterwards
copy_from_template(template_root, key, tree, dest) ==
    IF ~exists(template_root, key)
    THEN [raised |-> TRUE, tree |-> tree]
    ELSE [raised |-> FALSE, tree |-> write_bytes(tree, dest, template_root[key])]

(***************************************************************************)
(* Planner.apply                                                           *)
(***************************************************************************)
\* answers of prompt_fn, as strings of characters
Responses ==
    {<<"y">>, <<"Y", " ">>, <<"N">>, <<>>, <<"y", "e", "s">>}

Whitespace == {" ", "\t", "\n"}

\* str.strip()
RECURSIVE lstrip(_)
lstrip(s) ==
    IF s # <<>> /\ Head(s) \in Whitespace THEN lstrip(Tail(s)) ELSE s

RECURSIVE rstrip(_)
rstrip(s) ==
    IF s # <<>> /\ s[Len(s)] \in Whitespace
    THEN rstrip(SubSeq(s, 1, Len(s) - 1)) ELSE s

strip(s) == rstrip(lstrip(s))

\* str.lower() on the letters the responses use
lower_char(c) ==
    CASE c = "Y" -> "y"
      [] c = "N" -> "n"
      [] c = "E" -> "e"
      [] c = "S" -> "s"
      [] OTHER -> c

lower(s) == [i \in 1..Len(s) |-> lower_char(s[i])]

\* variant: any response that starts with y confirms
Confirmed_StartsWithY(response) ==
    lower(strip(response)) # <<>> /\ lower(strip(response))[1] = "y"

\* prompt_fn(...).strip().lower() == 'y'
Confirmed(response) == lower(strip(response)) = <<"y">>

\* set(plan.<list>)
set(list) == {list[i] : i \in 1..Len(list)}

\* removed_keys = {local for local, _template in plan.template_removed}
removed_keys(p) == {e[1] : e \in set(p.template_removed)}

\* the calls of file_ops that Planner.apply of tcv_helper.py makes for an
\* entry: remove_file for a removed key, copy_from_template otherwise
tcv_Call(entry, p) ==
    <<IF entry[1] \in {e[1] : e \in set(p.template_removed)}
      THEN "remove_file" ELSE "copy_from_template", entry[1]>>

\* Planner.apply of tcv_helper.py, as the set of its calls of file_ops;
\* answers gives prompt_fn's response for each key it is asked about
tcv_apply(p, force, answers) ==
    LET auto_set == set(p.auto_update)
        prompt_set == set(p.prompt_user)
        asked == IF prompt_set # {} /\ ~force
                 THEN {e \in prompt_set : lower(strip(answers[e[1]])) = <<"y">>}
                 ELSE IF prompt_set # {} /\ force THEN prompt_set
                 ELSE {}
    IN {tcv_Call(e, p) : e \in auto_set \cup asked}

\* variant: the confirmations are requested in set iteration order
PromptOrder_Unsorted(prompt_set) ==
    LET s == sorted_tuples(prompt_set)
    IN [i \in 1..Len(s) |-> s[Len(s) + 1 - i]]

\* the order in which the confirmations are requested
PromptOrder(prompt_set) == sorted_tuples(prompt_set)

\* the body shared by the three loops: remove the file or copy it
ApplyEntry(entry, p, template_root, tree) ==
    IF entry[1] \in removed_keys(p)
    THEN [raised |-> FALSE, tree |-> remove_file(tree, entry[1]),
          call |-> "remove_file"]
    ELSE [raised |-> copy_from_template(template_root, entry[2], tree, entry[1]).raised,
          tree |-> copy_from_template(template_root, entry[2], tree, entry[1]).tree,
          call |-> "copy_from_template"]

\* variant: prompt_user entries are applied without asking
AfterAuto_NeverAsks(prompt_set, force) ==
    IF prompt_set # {} THEN "forced" ELSE "done"

\* variant: force does not reach the prompt_user entries
AfterAuto_ForceDropsPrompts(prompt_set, force) ==
    IF prompt_set # {} /\ ~force THEN "prompt" ELSE "done"

\* what apply does once the auto-update loop is over
AfterAuto(prompt_set, force) ==
    IF prompt_set # {} /\ ~force THEN "prompt"
    ELSE IF prompt_set # {} /\ force THEN "forced"
    ELSE "done"

Event(op, key, response) == [op |-> op, key |-> key, response |-> response]

(***************************************************************************)
(* State                                                                   *)
(***************************************************************************)
VARIABLES
    template_meta,   \* manifest.json of the template directory (temp_dest)
    local_meta,      \* manifest.json of the project directory (dest)
    template,        \* files under template_root
    project,         \* files under project_root
    project0,        \* the project files when the plan was built
    build_force,     \* force argument of build
    apply_force,     \* force argument of apply
    plan,            \* the Plan returned by build
    auto_left,       \* entries of auto_set not yet visited
    prompt_left,     \* entries of sorted(prompt_set) not yet visited
    forced_left,     \* entries of prompt_set not yet visited (force)
    log,             \* calls made so far: prompt_fn and file_ops
    pc               \* position in build / apply

\* TemplateCli.update, run after run
VARIABLES
    manifest_exists, \* the project directory has a manifest.json
    legacy_exists,   \* the project directory has a .template_manifest.json
    quiet,           \* updates completed since the last edit: "no", "once", "again"
    user_deleted     \* keys the user deleted while the manifest tracked them

update_vars == <<manifest_exists, legacy_exists, quiet, user_deleted>>

\* an update has not yet run
UpdateIdle ==
    /\ manifest_exists = FALSE
    /\ legacy_exists = FALSE
    /\ quiet = "no"
    /\ user_deleted = {}

\* TemplateCli.resolve_template_parents
VARIABLES
    configs,         \* per template name: its template.yaml in the cache
    template_name,   \* the template whose parent chain is resolved
    resolved,        \* the list under construction
    seen,            \* names _resolve has been entered with
    stack,           \* the active calls of _resolve, innermost last
    returned         \* resolve_template_parents has returned resolved

resolve_vars == <<configs, template_name, resolved, seen, stack, returned>>

\* no parent chain is being resolved
ResolveIdle ==
    /\ configs = <<>>
    /\ template_name = ""
    /\ resolved = <<>>
    /\ seen = {}
    /\ stack = <<>>
    /\ returned = FALSE

\* TemplateCli._build_merged_template
VARIABLES
    sources,         \* per parent name: its source directory in the cache
    parents,         \* the resolved parent chain, ancestors first
    app_builder,     \* the app_builder argument
    parents_left,    \* parents not yet copied from
    merged_dir,      \* files of the merged directory
    merged_entries,     \* the dict merged_manifest
    merge_done       \* manifest.json is written and merged_dir returned

merge_vars == <<sources, parents, app_builder, parents_left, merged_dir,
                merged_entries, merge_done>>

\* no merged directory is being built
MergeIdle ==
    /\ sources = <<>>
    /\ parents = <<>>
    /\ app_builder = FALSE
    /\ parents_left = <<>>
    /\ merged_dir = <<>>
    /\ merged_entries = <<>>
    /\ merge_done = FALSE

\* TemplateCli.ensure_cache
VARIABLES
    cache_dir,       \* the branch's cache directory: "missing", "previous",
                     \* "new" or "partial"
    cache0,          \* cache_dir when ensure_cache was called
    cache_mtime,     \* st_mtime of cache_dir
    now,             \* the clock
    remote_date,     \* what _remote_commit_date returns in this call
    archive_empty,   \* the downloaded zip has no entries
    stale_result,    \* outcome of _cache_is_stale in this call
    download_called, \* _download_and_extract was called in this call
    cache_pc         \* position in ensure_cache

cache_vars == <<cache_dir, cache0, cache_mtime, now, remote_date,
                archive_empty, stale_result, download_called, cache_pc>>

\* ensure_cache is not running
CacheIdle ==
    /\ cache_dir = "missing"
    /\ cache0 = "missing"
    /\ cache_mtime = 1
    /\ now = 1
    /\ remote_date = <<>>
    /\ archive_empty = FALSE
    /\ stale_result = ""
    /\ download_called = FALSE
    /\ cache_pc = "idle"

\* one invocation of TemplateCli.update, step by step
VARIABLES
    merged_exists,   \* the merged template directory of the invocation exists
    migrated,        \* _migrate_legacy_manifest has written a manifest.json
    base,            \* project and manifest when the first of a series of
                     \* invocations began; a series ends with a completed one
    said,            \* per key: the answers prompt_fn got in the series, or
                     \* "declined" by the completed invocation before it
    aborts           \* invocations of the series that ended with an error

run_vars == <<merged_exists, migrated, base, said, aborts>>

\* update is not running step by step
RunIdle ==
    /\ merged_exists = FALSE
    /\ migrated = FALSE
    /\ base = <<>>
    /\ said = <<>>
    /\ aborts = 0

\* the state that the Planner on its own leaves alone
elsewhere == <<update_vars, resolve_vars, merge_vars, cache_vars, run_vars>>

vars == <<template_meta, local_meta, template, project, project0,
          build_force, apply_force, plan, auto_left, prompt_left,
          forced_left, log, pc, elsewhere>>

inputs == <<template_meta, local_meta, template, project0,
            build_force, apply_force>>

\* the content whose digest a manifest entry records
ContentOf(digest) == CHOOSE c \in Contents : Sha256(c) = digest

Init ==
    /\ template_meta \in Manifests
    /\ local_meta \in Manifests
    /\ template = [k \in DOMAIN template_meta |-> ContentOf(template_meta[k].sha256)]
    /\ project \in Trees
    /\ project0 = project
    /\ build_force \in BOOLEAN
    /\ apply_force \in BOOLEAN
    /\ plan = Plan
    /\ auto_left = {}
    /\ prompt_left = <<>>
    /\ forced_left = {}
    /\ log = <<>>
    /\ pc = "start"
    /\ UpdateIdle
    /\ ResolveIdle
    /\ MergeIdle
    /\ CacheIdle
    /\ RunIdle

Build ==
    /\ pc = "start"
    /\ plan' = build(template_meta, local_meta, project, build_force)
    /\ pc' = "built"
    /\ UNCHANGED <<elsewhere, inputs, project, auto_left, prompt_left, forced_left, log>>

\* apply is entered: auto_set, prompt_set and removed_keys are computed
ApplyStart ==
    /\ pc = "built"
    /\ auto_left' = set(plan.auto_update)
    /\ pc' = "auto"
    /\ UNCHANGED <<elsewhere, inputs, project, plan, prompt_left, forced_left, log>>

\* one iteration of "for local, template in auto_set"
ApplyAuto ==
    /\ pc = "auto"
    /\ \E entry \in auto_left :
         LET r == ApplyEntry(entry, plan, template, project)
         IN /\ project' = r.tree
            /\ log' = Append(log, Event(r.call, entry[1], <<>>))
            /\ auto_left' = auto_left \ {entry}
            /\ pc' = IF r.raised THEN "raised" ELSE "auto"
    /\ UNCHANGED <<elsewhere, inputs, plan, prompt_left, forced_left>>

\* the auto-update loop is over: choose the branch for prompt_set
ApplyAutoEnd ==
    /\ pc = "auto"
    /\ auto_left = {}
    /\ pc' = AfterAuto(set(plan.prompt_user), apply_force)
    /\ prompt_left' = IF pc' = "prompt"
                      THEN PromptOrder(set(plan.prompt_user)) ELSE <<>>
    /\ forced_left' = IF pc' = "forced" THEN set(plan.prompt_user) ELSE {}
    /\ UNCHANGED <<elsewhere, inputs, project, plan, auto_left, log>>

\* one iteration of "for local, template in sorted(prompt_set)"
ApplyPrompt ==
    /\ pc = "prompt"
    /\ prompt_left # <<>>
    /\ \E response \in Responses :
         LET entry == Head(prompt_left)
             r == ApplyEntry(entry, plan, template, project)
             asked == Append(log, Event("prompt_fn", entry[1], response))
         IN IF Confirmed(response)
            THEN /\ project' = r.tree
                 /\ log' = Append(asked, Event(r.call, entry[1], <<>>))
                 /\ pc' = IF r.raised THEN "raised" ELSE "prompt"
            ELSE /\ project' = project
                 /\ log' = asked
                 /\ pc' = "prompt"
    /\ prompt_left' = Tail(prompt_left)
    /\ UNCHANGED <<elsewhere, inputs, plan, auto_left, forced_left>>

\* one iteration of "for local, template in prompt_set" under force
ApplyForced ==
    /\ pc = "forced"
    /\ \E entry \in forced_left :
         LET r == ApplyEntry(entry, plan, template, project)
         IN /\ project' = r.tree
            /\ log' = Append(log, Event(r.call, entry[1], <<>>))
            /\ forced_left' = forced_left \ {entry}
            /\ pc' = IF r.raised THEN "raised" ELSE "forced"
    /\ UNCHANGED <<elsewhere, inputs, plan, auto_left, prompt_left>>

\* apply returns
ApplyReturn ==
    /\ \/ pc = "prompt" /\ prompt_left = <<>>
       \/ pc = "forced" /\ forced_left = {}
    /\ pc' = "done"
    /\ UNCHANGED <<elsewhere, inputs, project, plan, auto_left, prompt_left, forced_left, log>>

Next ==
    \/ Build
    \/ ApplyStart
    \/ ApplyAuto
    \/ ApplyAutoEnd
    \/ ApplyPrompt
    \/ ApplyForced
    \/ ApplyReturn

Spec == Init /\ [][Next]_vars

(***************************************************************************)
(* TemplateCli.update: migrate, build, apply, copy the manifest            *)
(***************************************************************************)
\* the manifest _build_merged_template writes for the files it copied
merged_manifest(tree) ==
    [k \in DOMAIN tree |-> [last_commit |-> Sha256(tree[k]),
                            sha256 |-> Sha256(tree[k]),
                            template_path |-> k]]

\* 'last_commit': 'legacy_migrated'
LegacyMigrated == <<"commit", "legacy_migrated">>

\* variant: every migrated entry is the template's entry
MigratedEntry_AsTemplate(entry, local_hash) == entry

\* the entry _migrate_legacy_manifest writes for a key whose file exists
MigratedEntry(entry, local_hash) ==
    IF local_hash = entry.sha256 THEN entry
    ELSE [last_commit |-> LegacyMigrated,
          sha256 |-> local_hash,
          template_path |-> entry.template_path]

\* variant: the legacy manifest is left next to the manifest.json written
migrate_legacy_manifest_KeepsLegacy(tmeta, tree, new_exists, old_exists, lmeta) ==
    IF new_exists \/ ~old_exists
    THEN [exists |-> new_exists, legacy |-> old_exists, meta |-> lmeta]
    ELSE [exists |-> TRUE, legacy |-> TRUE,
          meta |-> [k \in {key \in DOMAIN tmeta : exists(tree, key)} |->
                       MigratedEntry(tmeta[k], sha256_file(tree, k))]]

\* exists, legacy, meta: manifest.json and .template_manifest.json afterwards
migrate_legacy_manifest(tmeta, tree, new_exists, old_exists, lmeta) ==
    IF new_exists \/ ~old_exists
    THEN [exists |-> new_exists, legacy |-> old_exists, meta |-> lmeta]
    ELSE [exists |-> TRUE, legacy |-> FALSE,
          meta |-> [k \in {key \in DOMAIN tmeta : exists(tree, key)} |->
                       MigratedEntry(tmeta[k], sha256_file(tree, k))]]

\* the answers Render.prompt.ask(choices=['y', 'N'], default='N') can return
PromptAnswers == {<<"y">>, <<"N">>}

\* a loop over entries, each one removed or copied; the first error ends it
RECURSIVE ApplyLoop(_, _, _, _)
ApplyLoop(entries, p, template_root, tree) ==
    IF entries = <<>> THEN [raised |-> FALSE, tree |-> tree]
    ELSE LET r == ApplyEntry(Head(entries), p, template_root, tree)
         IN IF r.raised THEN [raised |-> TRUE, tree |-> r.tree]
            ELSE ApplyLoop(Tail(entries), p, template_root, r.tree)

\* the entries of sorted(prompt_set) whose prompt is answered y
Accepted(entries, answers) ==
    SelectSeq(entries, LAMBDA e : Confirmed(answers[e[1]]))

\* Planner.apply from its first line to its return
apply(p, template_root, tree, force, answers) ==
    LET auto == ApplyLoop(sorted_tuples(set(p.auto_update)), p, template_root, tree)
        prompt_set == set(p.prompt_user)
        branch == AfterAuto(prompt_set, force)
    IN IF auto.raised THEN auto
       ELSE IF branch = "prompt"
       THEN ApplyLoop(Accepted(PromptOrder(prompt_set), answers),
                      p, template_root, auto.tree)
       ELSE IF branch = "forced"
       THEN ApplyLoop(sorted_tuples(prompt_set), p, template_root, auto.tree)
       ELSE auto

\* variant: update does not hand the force flag to build
BuildForce_Dropped(force) == FALSE

\* planner.build(merged_dir, Path.cwd(), force=force)
BuildForce(force) == force

\* variant: the merged entries are added to the project manifest
CopyManifest_Updates(merged_meta, lmeta) ==
    [k \in DOMAIN merged_meta \cup DOMAIN lmeta |->
        IF k \in DOMAIN merged_meta THEN merged_meta[k] ELSE lmeta[k]]

\* variant: the project manifest is left as it was
CopyManifest_Kept(merged_meta, lmeta) == lmeta

\* shutil.copy2(merged_manifest, Path.cwd() / 'manifest.json')
CopyManifest(merged_meta, lmeta) == merged_meta

UpdateInit ==
    /\ template \in Trees
    /\ template_meta = merged_manifest(template)
    /\ project \in Trees
    /\ manifest_exists \in BOOLEAN
    /\ local_meta \in IF manifest_exists
                      THEN {merged_manifest(t) : t \in Trees} ELSE {<<>>}
    /\ legacy_exists \in BOOLEAN
    /\ quiet = "no"
    /\ user_deleted = {}
    /\ build_force = FALSE
    /\ apply_force = FALSE
    /\ plan = Plan
    /\ project0 = <<>>
    /\ auto_left = {}
    /\ prompt_left = <<>>
    /\ forced_left = {}
    /\ log = <<>>
    /\ pc = "update"
    /\ ResolveIdle
    /\ MergeIdle
    /\ CacheIdle
    /\ RunIdle

planner_idle == <<project0, auto_left, prompt_left, forced_left, log, pc,
                  resolve_vars, merge_vars, cache_vars, run_vars>>

\* one run of update with the merged directory of the current templates;
\* prompt_fn is asked about the entries of prompt_user only
Update ==
    \E force \in BOOLEAN :
      LET m == migrate_legacy_manifest(template_meta, project, manifest_exists,
                                       legacy_exists, local_meta)
          p == build(template_meta, m.meta, project, BuildForce(force))
      IN \E answers \in [{e[1] : e \in set(p.prompt_user)} -> PromptAnswers] :
           LET a == apply(p, template, project, force, answers)
           IN /\ plan' = p
              /\ project' = a.tree
              /\ legacy_exists' = m.legacy
              /\ manifest_exists' = (a.raised => m.exists)
              /\ local_meta' = IF a.raised THEN m.meta
                               ELSE CopyManifest(template_meta, m.meta)
              /\ quiet' = IF a.raised THEN "no"
                          ELSE IF quiet = "no" THEN "once" ELSE "again"
              /\ user_deleted' = user_deleted \ DOMAIN a.tree
              /\ build_force' = force
              /\ apply_force' = force
              /\ UNCHANGED <<template, template_meta, planner_idle>>

\* the user writes a file of the project
UserEdit ==
    \E k \in Keys, c \in Contents :
      /\ sha256_file(project, k) # Sha256(c)
      /\ project' = write_bytes(project, k, c)
      /\ user_deleted' = user_deleted \ {k}
      /\ quiet' = "no"
      /\ UNCHANGED <<template, template_meta, local_meta, manifest_exists,
                     legacy_exists, plan, build_force, apply_force, planner_idle>>

\* the user deletes a file of the project
UserDelete ==
    \E k \in DOMAIN project :
      /\ project' = unlink(project, k)
      /\ user_deleted' = IF manifest_exists /\ k \in DOMAIN local_meta
                         THEN user_deleted \cup {k} ELSE user_deleted
      /\ quiet' = "no"
      /\ UNCHANGED <<template, template_meta, local_meta, manifest_exists,
                     legacy_exists, plan, build_force, apply_force, planner_idle>>

\* the templates change one file: the next merged directory differs in it
TemplateChange ==
    \E k \in Keys, t \in Trees :
      /\ t # template
      /\ \A j \in Keys \ {k} : sha256_file(t, j) = sha256_file(template, j)
      /\ template' = t
      /\ template_meta' = merged_manifest(t)
      /\ quiet' = "no"
      /\ UNCHANGED <<project, local_meta, manifest_exists, legacy_exists,
                     user_deleted, plan, build_force, apply_force, planner_idle>>

UpdateNext ==
    \/ Update
    \/ UserEdit
    \/ UserDelete
    \/ TemplateChange

SpecUpdate == UpdateInit /\ [][UpdateNext]_vars

(***************************************************************************)
(* TemplateCli.resolve_template_parents                                    *)
(***************************************************************************)
MaxParents == 2

\* template names of one type, as in the template repository
Names == {"_app_common", "basic", "egress"}

\* template_parents of a template.yaml: lists that name no parent twice
ParentLists ==
    {ps \in UNION {[1..n -> Names] : n \in 0..MaxParents} :
        \A i, j \in 1..Len(ps) : ps[i] = ps[j] => i = j}

\* what the cache holds for a name: no readable template.yaml, or one
\* with its template_parents
Configs ==
    {[is_file |-> FALSE, template_parents |-> <<>>]}
        \cup {[is_file |-> TRUE, template_parents |-> ps] : ps \in ParentLists}

\* read_template_config(...) is None
ConfigIsNone(cfgs, name) == ~cfgs[name].is_file

\* config.template_parents or []
ParentsOf(cfgs, name) ==
    IF ConfigIsNone(cfgs, name) THEN <<>> ELSE cfgs[name].template_parents

\* a call of _resolve: entered is FALSE until its first line has run
Frame(name, entered, rest) == [name |-> name, entered |-> entered, rest |-> rest]

Top == stack[Len(stack)]

Pop == SubSeq(stack, 1, Len(stack) - 1)

\* the interpreter's limit on nested calls, far above what seen allows
MaxDepth == Cardinality(Names) + 2

\* variant: the guard on seen is missing
AlreadySeen_Never(name, seen_) == FALSE

\* if name in seen: return
AlreadySeen(name, seen_) == name \in seen_

\* variant: a template is added before its parents are resolved
AddResolved_First(list, name) == <<name>> \o list

\* resolved.append(name)
AddResolved(list, name) == Append(list, name)

planner_vars == <<template_meta, local_meta, template, project, project0,
                  build_force, apply_force, plan, auto_left, prompt_left,
                  forced_left, log, pc>>

PlannerIdle ==
    /\ template_meta = <<>>
    /\ local_meta = <<>>
    /\ template = <<>>
    /\ project = <<>>
    /\ project0 = <<>>
    /\ build_force = FALSE
    /\ apply_force = FALSE
    /\ plan = Plan
    /\ auto_left = {}
    /\ prompt_left = <<>>
    /\ forced_left = {}
    /\ log = <<>>
    /\ pc = "idle"

\* resolve_template_parents is called: _resolve(template_name) is pending
ResolveInit ==
    /\ configs \in [Names -> Configs]
    /\ template_name \in Names
    /\ resolved = <<>>
    /\ seen = {}
    /\ stack = <<Frame(template_name, FALSE, <<>>)>>
    /\ returned = FALSE
    /\ PlannerIdle
    /\ UpdateIdle
    /\ MergeIdle
    /\ CacheIdle
    /\ RunIdle

resolve_idle == <<planner_vars, update_vars, merge_vars, cache_vars, run_vars>>

\* _resolve(name) is entered and name was seen before: it returns
ResolveSeen ==
    /\ stack # <<>>
    /\ ~Top.entered
    /\ AlreadySeen(Top.name, seen)
    /\ stack' = Pop
    /\ UNCHANGED <<configs, template_name, resolved, seen, returned, resolve_idle>>

\* _resolve(name) is entered with a new name: seen.add, then the config is
\* read; without a config the name is appended and the call returns
ResolveEnter ==
    /\ stack # <<>>
    /\ ~Top.entered
    /\ ~AlreadySeen(Top.name, seen)
    /\ seen' = seen \cup {Top.name}
    /\ IF ConfigIsNone(configs, Top.name)
       THEN /\ resolved' = Append(resolved, Top.name)
            /\ stack' = Pop
       ELSE /\ resolved' = resolved
            /\ stack' = Pop \o <<Frame(Top.name, TRUE, ParentsOf(configs, Top.name))>>
    /\ UNCHANGED <<configs, template_name, returned, resolve_idle>>

\* one iteration of "for parent in config.template_parents": _resolve(parent)
ResolveParent ==
    /\ stack # <<>>
    /\ Top.entered
    /\ Top.rest # <<>>
    /\ Len(stack) < MaxDepth
    /\ stack' = Pop \o <<Frame(Top.name, TRUE, Tail(Top.rest)),
                         Frame(Head(Top.rest), FALSE, <<>>)>>
    /\ UNCHANGED <<configs, template_name, resolved, seen, returned, resolve_idle>>

\* the loop over the parents is over: the name is appended, the call returns
ResolveAppend ==
    /\ stack # <<>>
    /\ Top.entered
    /\ Top.rest = <<>>
    /\ resolved' = AddResolved(resolved, Top.name)
    /\ stack' = Pop
    /\ UNCHANGED <<configs, template_name, seen, returned, resolve_idle>>

\* _resolve(template_name) has returned: resolved is not empty and is returned
ResolveReturn ==
    /\ stack = <<>>
    /\ ~returned
    /\ resolved # <<>>
    /\ returned' = TRUE
    /\ UNCHANGED <<configs, template_name, resolved, seen, stack, resolve_idle>>

ResolveNext ==
    \/ ResolveSeen
    \/ ResolveEnter
    \/ ResolveParent
    \/ ResolveAppend
    \/ ResolveReturn

SpecResolve == ResolveInit /\ [][ResolveNext]_vars

\* the call runs on: no step of it is postponed forever
SpecResolveFair == SpecResolve /\ WF_vars(ResolveNext)

(***************************************************************************)
(* TemplateCli._build_merged_template                                      *)
(***************************************************************************)
\* the parents whose source directories are merged
MergeNames == {"_app_common", "basic"}

\* rel.parts of the files a source directory can hold
SourcePaths ==
    {<<"app.py">>, <<"template.yaml">>, <<".gitignore">>, <<"gitignore">>,
     <<".appbuilderconfig">>, <<"manifest.json">>, <<"core", "tcex.json">>}

\* src_dir.is_dir() and the regular files src_dir.rglob('*') yields
SourceDirs ==
    {[is_dir |-> FALSE, files |-> {}]}
        \cup {[is_dir |-> TRUE, files |-> fs] : fs \in SUBSET SourcePaths}

\* parent chains resolve_template_parents can return over MergeNames
ParentChains ==
    {ps \in UNION {[1..n -> MergeNames] : n \in 1..Cardinality(MergeNames)} :
        \A i, j \in 1..Len(ps) : ps[i] = ps[j] => i = j}

\* the bytes of the file at rel in the source directory of name
SourceFile(name, rel) == <<name, rel>>

skip_names == {"template.yaml", ".gitignore", "tcex.json"}

\* variant: the meta-files are copied like any other file
Skipped_NoMetaFiles(rel, builder) ==
    \/ rel = <<"manifest.json">>
    \/ rel[1] = ".appbuilderconfig" /\ ~builder

\* variant: the manifest.json of a source directory is copied
Skipped_KeepsManifest(rel, builder) ==
    \/ rel[1] \in skip_names
    \/ rel[1] = ".appbuilderconfig" /\ ~builder

\* the three "continue" tests on a source file; name is rel.parts[0]
Skipped(rel, builder) ==
    \/ rel[1] \in skip_names
    \/ rel = <<"manifest.json">>
    \/ rel[1] = ".appbuilderconfig" /\ ~builder

\* parts[-1] == 'gitignore' becomes '.gitignore'
Renamed(rel) ==
    IF rel[Len(rel)] = "gitignore"
    THEN [rel EXCEPT ![Len(rel)] = ".gitignore"] ELSE rel

\* variant: a file that is already in the merged directory is kept
copy2_KeepsExisting(tree, dest, data) ==
    IF dest \in DOMAIN tree THEN tree
    ELSE [k \in DOMAIN tree \cup {dest} |-> IF k = dest THEN data ELSE tree[k]]

\* shutil.copy2(src_file, dest)
copy2(tree, dest, data) ==
    [k \in DOMAIN tree \cup {dest} |-> IF k = dest THEN data ELSE tree[k]]

\* the manifest entry written after a copy, from the digest of dest
MergedEntry(file_hash, rel_key) ==
    [last_commit |-> file_hash, sha256 |-> file_hash, template_path |-> rel_key]

\* the files of one parent are copied in the order given
RECURSIVE CopyFiles(_, _, _, _)
CopyFiles(name, rels, tree, meta) ==
    IF rels = <<>> THEN [tree |-> tree, meta |-> meta]
    ELSE LET dest == Renamed(Head(rels))
             copied == copy2(tree, dest, SourceFile(name, Head(rels)))
             entry == MergedEntry(Sha256(copied[dest]), dest)
         IN CopyFiles(name, Tail(rels), copied,
                      [k \in DOMAIN meta \cup {dest} |->
                          IF k = dest THEN entry ELSE meta[k]])

\* the orders in which rglob can yield the files of S
Orders(S) ==
    {o \in [1..Cardinality(S) -> S] : \A i, j \in 1..Cardinality(S) :
                                         o[i] = o[j] => i = j}

\* the files of a source directory that have the same destination
Colliding(S) == {r \in S : \E q \in S : q # r /\ Renamed(q) = Renamed(r)}

MergeInit ==
    /\ parents \in ParentChains
    /\ sources \in [{parents[i] : i \in 1..Len(parents)} -> SourceDirs]
    /\ app_builder \in BOOLEAN
    /\ parents_left = parents
    /\ merged_dir = <<>>
    /\ merged_entries = <<>>
    /\ merge_done = FALSE
    /\ PlannerIdle
    /\ UpdateIdle
    /\ ResolveIdle
    /\ CacheIdle
    /\ RunIdle

merge_idle == <<planner_vars, update_vars, resolve_vars, cache_vars, run_vars>>

\* one iteration of "for parent_name in parents" whose src_dir is missing
MergeMissingDir ==
    /\ parents_left # <<>>
    /\ ~sources[Head(parents_left)].is_dir
    /\ parents_left' = Tail(parents_left)
    /\ UNCHANGED <<sources, parents, app_builder, merged_dir, merged_entries,
                   merge_done, merge_idle>>

\* one iteration of "for parent_name in parents": every file of src_dir
\* that is not skipped is copied and hashed; files with distinct
\* destinations commute, the others are taken in any order
MergeParent ==
    /\ parents_left # <<>>
    /\ sources[Head(parents_left)].is_dir
    /\ LET name == Head(parents_left)
           kept == {r \in sources[name].files : ~Skipped(r, app_builder)}
           apart == kept \ Colliding(kept)
       IN \E o \in Orders(Colliding(kept)) :
            LET r == CopyFiles(name, SetToSeq(apart) \o o, merged_dir, merged_entries)
            IN /\ merged_dir' = r.tree
               /\ merged_entries' = r.meta
    /\ parents_left' = Tail(parents_left)
    /\ UNCHANGED <<sources, parents, app_builder, merge_done, merge_idle>>

\* the combined manifest is written to merged_dir and merged_dir returned
MergeWriteManifest ==
    /\ parents_left = <<>>
    /\ ~merge_done
    /\ merged_dir' = copy2(merged_dir, <<"manifest.json">>, <<"json", merged_entries>>)
    /\ merge_done' = TRUE
    /\ UNCHANGED <<sources, parents, app_builder, parents_left, merged_entries,
                   merge_idle>>

MergeNext ==
    \/ MergeMissingDir
    \/ MergeParent
    \/ MergeWriteManifest

SpecMerge == MergeInit /\ [][MergeNext]_vars

(***************************************************************************)
(* TemplateCli.ensure_cache, _cache_is_stale, _download_and_extract        *)
(***************************************************************************)
MaxTime == 3

Times == 1..MaxTime

\* what _remote_commit_date can return: None (request failed or no date
\* field), a JSON value that is not a string, a string that is no ISO 8601
\* timestamp, a timestamp with a UTC offset (or Z), a timestamp without one
RemoteDates ==
    {[kind |-> k, t |-> 0] : k \in {"none", "not_str", "malformed"}}
        \cup {[kind |-> k, t |-> t] : k \in {"aware", "naive"}, t \in Times}

\* datetime.fromisoformat(remote_date.replace('Z', '+00:00')):
\* AttributeError, ValueError, or a datetime that has a tzinfo or not
fromisoformat(date) ==
    CASE date.kind = "not_str" -> [raised |-> "AttributeError"]
      [] date.kind = "malformed" -> [raised |-> "ValueError"]
      [] date.kind = "aware" -> [raised |-> "", tzinfo |-> TRUE, t |-> date.t]
      [] date.kind = "naive" -> [raised |-> "", tzinfo |-> FALSE, t |-> date.t]

\* remote_dt > cache_mtime, cache_mtime being timezone-aware: comparing it
\* with a naive datetime raises TypeError
LaterThan(remote_dt, mtime) ==
    IF ~remote_dt.tzinfo THEN "raised"
    ELSE IF remote_dt.t > mtime THEN "stale" ELSE "fresh"

\* cache_dir.exists()
CacheExists(dir) == dir # "missing"

\* "stale" is True, "fresh" is False, "raised" an exception that propagates
cache_is_stale(dir, date, mtime) ==
    IF ~CacheExists(dir) THEN "stale"
    ELSE IF date.kind = "none" THEN "fresh"
    ELSE IF fromisoformat(date).raised \in {"ValueError", "AttributeError"}
    THEN "fresh"
    ELSE LaterThan(fromisoformat(date), mtime)

\* the steps of _download_and_extract, in order
DownloadSteps == {"download", "extract", "flatten", "rmtree", "move"}

\* cache_dir after the step at position at fails or is interrupted:
\* rmtree may have removed nothing yet or part of the tree; once rmtree is
\* over the directory is gone, and a move that copies may have copied part
AfterFailure(at, dir) ==
    CASE at \in {"download", "extract", "flatten"} -> {dir}
      [] at = "rmtree" -> {dir, "partial"}
      [] at = "move" -> {"missing", "partial"}

CacheInit ==
    /\ cache_dir \in {"missing", "previous"}
    /\ cache0 = cache_dir
    /\ cache_mtime \in Times
    /\ now \in cache_mtime..MaxTime
    /\ remote_date \in RemoteDates
    /\ archive_empty \in BOOLEAN
    /\ stale_result = ""
    /\ download_called = FALSE
    /\ cache_pc = "ensure_cache"
    /\ PlannerIdle
    /\ UpdateIdle
    /\ ResolveIdle
    /\ MergeIdle
    /\ RunIdle

cache_idle == <<planner_vars, update_vars, resolve_vars, merge_vars, run_vars>>

\* if self._cache_is_stale(branch): self._download_and_extract(branch),
\* else return self._cache_dir(branch)
CacheIsStale ==
    /\ cache_pc = "ensure_cache"
    /\ stale_result' = cache_is_stale(cache_dir, remote_date, cache_mtime)
    /\ download_called' = (stale_result' = "stale")
    /\ cache_pc' = CASE stale_result' = "stale" -> "download"
                     [] stale_result' = "fresh" -> "returned"
                     [] stale_result' = "raised" -> "raised"
    /\ UNCHANGED <<cache_dir, cache0, cache_mtime, now, remote_date,
                   archive_empty, cache_idle>>

\* the zipball is streamed to a temp file
Download ==
    /\ cache_pc = "download"
    /\ cache_pc' = "extract"
    /\ UNCHANGED <<cache_dir, cache0, cache_mtime, now, remote_date,
                   archive_empty, stale_result, download_called, cache_idle>>

\* namelist and extractall: an archive without entries ends the refresh
Extract ==
    /\ cache_pc = "extract"
    /\ cache_pc' = IF archive_empty THEN "returned" ELSE "flatten"
    /\ UNCHANGED <<cache_dir, cache0, cache_mtime, now, remote_date,
                   archive_empty, stale_result, download_called, cache_idle>>

\* the top-level prefix directory is flattened into flat_dir
Flatten ==
    /\ cache_pc = "flatten"
    /\ cache_pc' = "rmtree"
    /\ UNCHANGED <<cache_dir, cache0, cache_mtime, now, remote_date,
                   archive_empty, stale_result, download_called, cache_idle>>

\* if cache_dir.exists(): shutil.rmtree(cache_dir)
RemoveCache ==
    /\ cache_pc = "rmtree"
    /\ cache_dir' = "missing"
    /\ cache_pc' = "move"
    /\ UNCHANGED <<cache0, cache_mtime, now, remote_date, archive_empty,
                   stale_result, download_called, cache_idle>>

\* shutil.move(flat_dir, cache_dir), then ensure_cache returns
MoveFlat ==
    /\ cache_pc = "move"
    /\ cache_dir' = "new"
    /\ cache_mtime' = now
    /\ cache_pc' = "returned"
    /\ UNCHANGED <<cache0, now, remote_date, archive_empty, stale_result,
                   download_called, cache_idle>>

\* the current step raises or the process is interrupted in it
DownloadFails ==
    /\ cache_pc \in DownloadSteps
    /\ cache_dir' \in AfterFailure(cache_pc, cache_dir)
    /\ cache_pc' = "failed"
    /\ UNCHANGED <<cache0, cache_mtime, now, remote_date, archive_empty,
                   stale_result, download_called, cache_idle>>

\* a later command calls ensure_cache again
EnsureCacheAgain ==
    /\ cache_pc \in {"returned", "raised", "failed"}
    /\ cache_dir' = IF cache_dir = "new" THEN "previous" ELSE cache_dir
    /\ cache0' = cache_dir'
    /\ now' \in now..MaxTime
    /\ remote_date' \in RemoteDates
    /\ archive_empty' \in BOOLEAN
    /\ stale_result' = ""
    /\ download_called' = FALSE
    /\ cache_pc' = "ensure_cache"
    /\ UNCHANGED <<cache_mtime, cache_idle>>

CacheNext ==
    \/ CacheIsStale
    \/ Download
    \/ Extract
    \/ Flatten
    \/ RemoveCache
    \/ MoveFlat
    \/ DownloadFails
    \/ EnsureCacheAgain

SpecCache == CacheInit /\ [][CacheNext]_vars

(***************************************************************************)
(* TemplateCli.update, step by step, with its error paths                  *)
(***************************************************************************)
\* how many invocations in a row meet an error before one runs undisturbed
MaxAborts == 1

\* the files _build_merged_template puts under merged_dir for a manifest
MergedFiles(tmeta) == [k \in DOMAIN tmeta |-> ContentOf(tmeta[k].sha256)]

\* project and manifest as an invocation finds them
Snapshot == [project |-> project, meta |-> local_meta,
             exists |-> manifest_exists, legacy |-> legacy_exists]

\* the answers given for key in a log, as confirmations
Heard(key, lg) ==
    {Confirmed(lg[i].response) :
        i \in {j \in 1..Len(lg) : lg[j].op = "prompt_fn" /\ lg[j].key = key}}

\* what was said for key so far, the answers of lg included
SaidAfter(prev, key, lg) ==
    LET before == CASE prev = "y" -> {TRUE}
                    [] prev = "n" -> {FALSE}
                    [] prev = "mixed" -> {TRUE, FALSE}
                    [] OTHER -> {}
        all == before \cup Heard(key, lg)
    IN IF all = {} THEN ""
       ELSE IF all = {TRUE} THEN "y"
       ELSE IF all = {FALSE} THEN "n"
       ELSE "mixed"

RunInit ==
    /\ template_meta \in {merged_manifest(t) : t \in Trees}
    /\ template = MergedFiles(template_meta)
    /\ project \in Trees
    /\ project0 = project
    /\ manifest_exists \in BOOLEAN
    /\ local_meta \in IF manifest_exists
                      THEN {merged_manifest(t) : t \in Trees} ELSE {<<>>}
    /\ legacy_exists \in BOOLEAN
    /\ build_force \in BOOLEAN
    /\ apply_force = build_force
    /\ plan = Plan
    /\ auto_left = {}
    /\ prompt_left = <<>>
    /\ forced_left = {}
    /\ log = <<>>
    /\ pc = "enter"
    /\ merged_exists = FALSE
    /\ migrated = FALSE
    /\ base = Snapshot
    /\ said = [k \in Keys |-> ""]
    /\ aborts = 0
    /\ quiet = "no"
    /\ user_deleted = {}
    /\ ResolveIdle
    /\ MergeIdle
    /\ CacheIdle

run_idle == <<resolve_vars, merge_vars, cache_vars, quiet, user_deleted>>

apply_state == <<plan, auto_left, prompt_left, forced_left, log>>

\* merged_dir = self._build_merged_template(...) returns the directory
BuildMerged ==
    /\ pc = "enter"
    /\ merged_exists' = TRUE
    /\ template' = MergedFiles(template_meta)
    /\ pc' = "migrate"
    /\ UNCHANGED <<template_meta, local_meta, project, project0, build_force,
                   apply_force, manifest_exists, legacy_exists, migrated, base,
                   said, aborts, apply_state, run_idle>>

\* _build_merged_template or a step before it raises: update has no
\* handler around the call, and the temporary directory may exist already
BuildMergedFails ==
    /\ pc = "enter"
    /\ aborts < MaxAborts
    /\ merged_exists' \in BOOLEAN
    /\ pc' = "aborted"
    /\ UNCHANGED <<template_meta, template, local_meta, project, project0,
                   build_force, apply_force, manifest_exists, legacy_exists,
                   migrated, base, said, aborts, apply_state, run_idle>>

\* self._migrate_legacy_manifest(merged_dir, Path.cwd())
Migrate ==
    /\ pc = "migrate"
    /\ LET m == migrate_legacy_manifest(template_meta, project, manifest_exists,
                                        legacy_exists, local_meta)
       IN /\ local_meta' = m.meta
          /\ manifest_exists' = m.exists
          /\ legacy_exists' = m.legacy
          /\ migrated' = (migrated \/ (legacy_exists /\ ~manifest_exists))
    /\ pc' = "start"
    /\ UNCHANGED <<template_meta, template, project, project0, build_force,
                   apply_force, merged_exists, base, said, aborts, apply_state, run_idle>>

\* one prompt of apply under update: _prompt_fn offers the choices y and N
UpdatePrompt ==
    /\ ApplyPrompt
    /\ log'[Len(log) + 1].response \in PromptAnswers

\* shutil.copy2 of the merged manifest, then _ensure_tcex_json
CopyMergedManifest ==
    /\ pc = "done"
    /\ local_meta' = CopyManifest(template_meta, local_meta)
    /\ manifest_exists' = TRUE
    /\ pc' = "copied"
    /\ UNCHANGED <<template_meta, template, project, project0, build_force,
                   apply_force, legacy_exists, merged_exists, migrated, base,
                   said, aborts, apply_state, run_idle>>

\* migration, build, apply or the manifest copy raises, or the user
\* interrupts the command, before the step at pc has had an effect; the
\* plan and the loop variables of apply go with the frames that are left
RunFails ==
    /\ pc \in {"migrate", "start", "auto", "prompt", "forced", "done"}
    /\ aborts < MaxAborts
    /\ pc' = "raised"
    /\ plan' = Plan
    /\ auto_left' = {}
    /\ prompt_left' = <<>>
    /\ forced_left' = {}
    /\ UNCHANGED <<template_meta, template, local_meta, project, project0,
                   build_force, apply_force, manifest_exists, legacy_exists,
                   merged_exists, migrated, base, said, aborts, log, run_idle>>

\* a file of the merged directory disappears before apply reads it
MergedFileLost ==
    /\ pc = "built"
    /\ aborts < MaxAborts
    /\ \E k \in DOMAIN template : template' = unlink(template, k)
    /\ UNCHANGED <<template_meta, local_meta, project, project0, build_force,
                   apply_force, manifest_exists, legacy_exists, merged_exists,
                   migrated, base, said, aborts, apply_state, pc, run_idle>>

\* variant: the merged manifest is copied to the project on the error path too
Finally_CopiesManifest ==
    /\ pc \in {"copied", "raised"}
    /\ merged_exists' = FALSE
    /\ pc' = IF pc = "copied" THEN "ended" ELSE "aborted"
    /\ local_meta' = CopyManifest(template_meta, local_meta)
    /\ manifest_exists' = TRUE
    /\ UNCHANGED <<template_meta, template, project, project0, build_force,
                   apply_force, legacy_exists, migrated, base, said, aborts,
                   apply_state, run_idle>>

\* finally: shutil.rmtree(merged_dir, ignore_errors=True); update returns
\* or the error propagates to the command
Finally ==
    /\ pc \in {"copied", "raised"}
    /\ merged_exists' = FALSE
    /\ pc' = IF pc = "copied" THEN "ended" ELSE "aborted"
    /\ UNCHANGED <<template_meta, template, local_meta, project, project0,
                   build_force, apply_force, manifest_exists, legacy_exists,
                   migrated, base, said, aborts, apply_state, run_idle>>

\* the same command is run again, with the same templates in the cache
RunAgain ==
    /\ pc \in {"ended", "aborted"}
    /\ aborts' = IF pc = "ended" THEN 0 ELSE aborts + 1
    /\ pc' = "enter"
    /\ merged_exists' = FALSE
    /\ project0' = project
    /\ base' = IF pc = "ended" THEN Snapshot ELSE base
    /\ said' = [k \in Keys |->
                  IF pc = "aborted" THEN SaidAfter(said[k], k, log)
                  ELSE IF SaidAfter("", k, log) = "n" THEN "declined" ELSE ""]
    /\ plan' = Plan
    /\ auto_left' = {}
    /\ prompt_left' = <<>>
    /\ forced_left' = {}
    /\ log' = <<>>
    /\ UNCHANGED <<template_meta, template, local_meta, project, build_force,
                   apply_force, manifest_exists, legacy_exists, migrated,
                   run_idle>>

RunNext ==
    \/ BuildMerged
    \/ BuildMergedFails
    \/ Migrate
    \/ Build
    \/ ApplyStart
    \/ ApplyAuto
    \/ ApplyAutoEnd
    \/ UpdatePrompt
    \/ ApplyForced
    \/ ApplyReturn
    \/ CopyMergedManifest
    \/ RunFails
    \/ MergedFileLost
    \/ Finally
    \/ RunAgain

SpecRun == RunInit /\ [][RunNext]_vars

\* the command keeps running and the user answers each prompt
SpecRunFair == SpecRun /\ WF_vars(RunNext)

(***************************************************************************)
(* Vocabulary of the properties                                            *)
(***************************************************************************)
\* the project keys listed in a plan list
KeysOf(list) == {list[i][1] : i \in 1..Len(list)}

\* how often a project key occurs in a plan list
Count(k, list) == Cardinality({i \in 1..Len(list) : list[i][1] = k})

\* the dispositions in which a key occurs
Dispositions(k) ==
    {d \in {"skip", "auto_update", "prompt_user"} : k \in KeysOf(plan[d])}

PlanBuilt == pc # "start"

FileOps == {"copy_from_template", "remove_file"}

\* a response that is 'y' once trimmed and lower-cased
IsYes(response) == lower(strip(response)) = <<"y">>

\* prompt_fn was asked about key k before position n of the log and said yes
AskedYesBefore(k, n) ==
    \E i \in 1..(n - 1) :
        log[i].op = "prompt_fn" /\ log[i].key = k /\ IsYes(log[i].response)

AskedYes(k) == AskedYesBefore(k, Len(log) + 1)

\* the positions of the log at which prompt_fn was called
PromptCalls == {i \in 1..Len(log) : log[i].op = "prompt_fn"}

InBoth == DOMAIN template_meta \cap DOMAIN local_meta
TemplateOnly == DOMAIN template_meta \ DOMAIN local_meta
LocalOnly == DOMAIN local_meta \ DOMAIN template_meta

\* the digest of the project file of k when the plan was built
Digest0(k) == sha256_file(project0, k)

(***************************************************************************)
(* C1: in a run of build then apply without force, a project file that     *)
(* exists when the plan is built is overwritten only after prompt_fn was   *)
(* asked about it and said yes, and is deleted only if prompt_fn said yes  *)
(* for it or its digest equals the sha256 the local manifest records.      *)
(***************************************************************************)
C1_NoSilentLoss ==
    (~build_force /\ ~apply_force) =>
        \A k \in DOMAIN project0 :
            /\ \A i \in 1..Len(log) :
                   (log[i].op = "copy_from_template" /\ log[i].key = k)
                       => AskedYesBefore(k, i)
            /\ (k \in DOMAIN project /\ project[k] # project0[k]) => AskedYes(k)
            /\ k \notin DOMAIN project =>
                   \/ AskedYes(k)
                   \/ k \in DOMAIN local_meta /\ Digest0(k) = local_meta[k].sha256

\* a modified file the template would replace survives a declined prompt
C1_Witness ==
    /\ ~build_force /\ ~apply_force /\ pc = "done"
    /\ \E k \in DOMAIN project0 \cap DOMAIN template :
           /\ k \in KeysOf(plan.prompt_user)
           /\ ~AskedYes(k)
           /\ template[k] # project0[k]
           /\ project[k] = project0[k]
    /\ \E k \in DOMAIN project0 : k \notin DOMAIN project

(***************************************************************************)
(* C2: build without force classifies a key of the template manifest that  *)
(* the local manifest lacks as template_new and prompt_user, never         *)
(* auto_update, if the project has a file there, and as template_new and   *)
(* auto_update if it has none.                                             *)
(***************************************************************************)
C2_NewKeyRule ==
    (PlanBuilt /\ ~build_force) =>
        \A k \in TemplateOnly :
            /\ k \in KeysOf(plan.template_new)
            /\ Dispositions(k) =
                   IF k \in DOMAIN project0 THEN {"prompt_user"} ELSE {"auto_update"}

C2_Witness ==
    /\ PlanBuilt /\ ~build_force
    /\ \E k \in TemplateOnly : k \in DOMAIN project0 /\ k \in KeysOf(plan.prompt_user)
    /\ \E k \in TemplateOnly : k \notin DOMAIN project0 /\ k \in KeysOf(plan.auto_update)

(***************************************************************************)
(* C3: build without force classifies a key of both manifests whose        *)
(* last_commit values are equal as skip and nothing else, whatever the     *)
(* project file and the sha256 fields are, and the file is then untouched. *)
(***************************************************************************)
C3_SameCommitSkips ==
    (PlanBuilt /\ ~build_force) =>
        \A k \in InBoth :
            template_meta[k].last_commit = local_meta[k].last_commit =>
                /\ Dispositions(k) = {"skip"}
                /\ k \notin KeysOf(plan.template_new) \cup KeysOf(plan.template_removed)
                /\ sha256_file(project, k) = Digest0(k)
                /\ \A i \in 1..Len(log) : log[i].key # k

\* a locally modified file, sha256 fields differing, same commit: skipped
C3_Witness ==
    /\ ~build_force /\ pc = "done"
    /\ \E k \in InBoth :
           /\ template_meta[k].last_commit = local_meta[k].last_commit
           /\ template_meta[k].sha256 # local_meta[k].sha256
           /\ k \in DOMAIN project0
           /\ Digest0(k) # template_meta[k].sha256
           /\ k \in KeysOf(plan.skip)
           /\ sha256_file(project, k) = Digest0(k)
    /\ \E k \in InBoth :
           /\ template_meta[k].last_commit = local_meta[k].last_commit
           /\ k \notin DOMAIN project0
           /\ k \in KeysOf(plan.skip)

(***************************************************************************)
(* C4: build without force classifies a key of both manifests with         *)
(* differing last_commit whose project file exists with a digest other     *)
(* than the template's sha256 as prompt_user, never auto_update or skip,   *)
(* also when the digest equals the local sha256 and for every key prefix.  *)
(***************************************************************************)
C4_DivergedPrompts ==
    (PlanBuilt /\ ~build_force) =>
        \A k \in InBoth :
            ( /\ template_meta[k].last_commit # local_meta[k].last_commit
              /\ k \in DOMAIN project0
              /\ Digest0(k) # template_meta[k].sha256 )
                => Dispositions(k) = {"prompt_user"}

\* a file under core/, unedited since the last sync, is prompted for
C4_Witness ==
    /\ PlanBuilt /\ ~build_force
    /\ LET k == "core/util.py"
       IN /\ k \in InBoth
          /\ template_meta[k].last_commit # local_meta[k].last_commit
          /\ k \in DOMAIN project0
          /\ Digest0(k) # template_meta[k].sha256
          /\ Digest0(k) = local_meta[k].sha256
          /\ k \in KeysOf(plan.prompt_user)

(***************************************************************************)
(* C5: build without force classifies a key of both manifests with         *)
(* differing last_commit as skip when the project file's digest equals the *)
(* template's sha256 or when the project file is absent.                   *)
(***************************************************************************)
C5_CurrentOrAbsentSkips ==
    (PlanBuilt /\ ~build_force) =>
        \A k \in InBoth :
            ( /\ template_meta[k].last_commit # local_meta[k].last_commit
              /\ (k \notin DOMAIN project0 \/ Digest0(k) = template_meta[k].sha256) )
                => Dispositions(k) = {"skip"}

C5_Witness ==
    /\ PlanBuilt /\ ~build_force
    /\ \E k \in InBoth :
           /\ template_meta[k].last_commit # local_meta[k].last_commit
           /\ k \notin DOMAIN project0
           /\ k \in KeysOf(plan.skip)
    /\ \E k \in InBoth :
           /\ template_meta[k].last_commit # local_meta[k].last_commit
           /\ k \in DOMAIN project0
           /\ Digest0(k) = template_meta[k].sha256
           /\ k \in KeysOf(plan.skip)

(***************************************************************************)
(* C6: build lists every key of the local manifest that the template       *)
(* manifest lacks in template_removed, and classifies it auto_update if    *)
(* the project file is absent or has the digest the local manifest         *)
(* records, prompt_user if the file exists with another digest.            *)
(***************************************************************************)
C6_RemovalRule ==
    PlanBuilt =>
        \A k \in LocalOnly :
            /\ k \in KeysOf(plan.template_removed)
            /\ Dispositions(k) =
                   IF k \notin DOMAIN project0 \/ Digest0(k) = local_meta[k].sha256
                   THEN {"auto_update"} ELSE {"prompt_user"}

C6_Witness ==
    /\ PlanBuilt
    /\ \E k \in LocalOnly :
           /\ k \in DOMAIN project0
           /\ Digest0(k) = local_meta[k].sha256
           /\ k \in KeysOf(plan.auto_update)
    /\ \E k \in LocalOnly :
           /\ k \in DOMAIN project0
           /\ Digest0(k) # local_meta[k].sha256
           /\ k \in KeysOf(plan.prompt_user)

(***************************************************************************)
(* C7: with force set for build and apply, prompt_fn is never called,      *)
(* every key of the template manifest is classified auto_update and its    *)
(* project file ends with the template's content, and every prompt_user    *)
(* entry (a modified file removed from the template) ends deleted.         *)
(***************************************************************************)
C7_ForceOverwrites ==
    (build_force /\ apply_force) =>
        /\ PromptCalls = {}
        /\ PlanBuilt =>
               \A k \in DOMAIN template_meta : Dispositions(k) = {"auto_update"}
        /\ pc = "done" =>
               /\ \A k \in DOMAIN template_meta :
                      /\ k \in DOMAIN project
                      /\ project[k] = template[template_meta[k].template_path]
               /\ \A k \in KeysOf(plan.prompt_user) :
                      /\ k \in LocalOnly
                      /\ k \notin DOMAIN project

\* a file created, a modified file overwritten, a modified removed file deleted
C7_Witness ==
    /\ build_force /\ apply_force /\ pc = "done"
    /\ \/ \E k \in DOMAIN template_meta :
              /\ k \in DOMAIN project0
              /\ project0[k] # template[k]
              /\ project[k] = template[k]
       \/ \E k \in DOMAIN template_meta : k \notin DOMAIN project0 /\ k \in DOMAIN project
    /\ \E k \in KeysOf(plan.prompt_user) : k \in DOMAIN project0 /\ k \notin DOMAIN project

(***************************************************************************)
(* C8: in every plan build returns, each key of the template manifest is   *)
(* in exactly one of skip, auto_update, prompt_user; each key only the     *)
(* local manifest has is once in template_removed, in exactly one of       *)
(* auto_update, prompt_user and never in skip; every template_new entry is *)
(* in exactly one of auto_update, prompt_user; no list repeats a key.      *)
(***************************************************************************)
C8_PlanPartition ==
    PlanBuilt =>
        /\ \A k \in DOMAIN template_meta :
               Count(k, plan.skip) + Count(k, plan.auto_update)
                   + Count(k, plan.prompt_user) = 1
        /\ \A k \in LocalOnly :
               /\ Count(k, plan.template_removed) = 1
               /\ Count(k, plan.auto_update) + Count(k, plan.prompt_user) = 1
               /\ Count(k, plan.skip) = 0
        /\ \A k \in KeysOf(plan.template_new) :
               Count(k, plan.auto_update) + Count(k, plan.prompt_user) = 1
        /\ \A d \in DOMAIN plan : \A k \in Keys : Count(k, plan[d]) <= 1

\* a plan with a template key and a removed key, both classified
C8_Witness ==
    /\ PlanBuilt
    /\ DOMAIN template_meta # {}
    /\ LocalOnly # {}
    /\ plan.template_new # <<>>
    /\ \E k \in LocalOnly : k \notin DOMAIN project0 /\ k \in KeysOf(plan.auto_update)

(***************************************************************************)
(* C9: in apply without force, the step for a prompt_user entry changes    *)
(* the project file (overwrite, or delete for a removed key) only if the   *)
(* response, trimmed and lower-cased, is exactly 'y'; after any other      *)
(* response the project files are as they were.                            *)
(***************************************************************************)
C9_OnlyYesChanges ==
    [][ ( /\ pc = "prompt"
          /\ Len(log') > Len(log)
          /\ log'[Len(log) + 1].op = "prompt_fn" )
            => /\ ~apply_force
               /\ log'[Len(log) + 1].key \in KeysOf(plan.prompt_user)
               /\ \/ IsYes(log'[Len(log) + 1].response)
                  \/ project' = project /\ Len(log') = Len(log) + 1
               /\ \A k \in Keys \ {log'[Len(log) + 1].key} :
                      sha256_file(project', k) = sha256_file(project, k) ]_vars

\* 'yes' was answered for a modified file and the file is as it was
C9_Witness ==
    /\ ~apply_force
    /\ \E i \in PromptCalls :
           /\ log[i].response = <<"y", "e", "s">>
           /\ log[i].key \in DOMAIN project0 \cap DOMAIN template
           /\ project0[log[i].key] # template[log[i].key]
           /\ log[i].key \in DOMAIN project
           /\ project[log[i].key] = project0[log[i].key]
    /\ \E i \in PromptCalls :
           /\ log[i].response = <<"N">>
           /\ log[i].key \in LocalOnly
           /\ log[i].key \in DOMAIN project

(***************************************************************************)
(* C10: in apply without force, every auto_update copy or removal is       *)
(* performed before the first call of prompt_fn, and prompt_fn is called   *)
(* exactly once for each prompt_user entry, in ascending order of key.     *)
(***************************************************************************)
C10_AutoThenSortedPrompts ==
    ~apply_force =>
        /\ \A i \in PromptCalls :
               \A k \in KeysOf(plan.auto_update) :
                   \E j \in 1..(i - 1) : log[j].op \in FileOps /\ log[j].key = k
        /\ \A i, j \in PromptCalls :
               i < j => KeyRank(log[i].key) < KeyRank(log[j].key)
        /\ \A i \in PromptCalls : log[i].key \in KeysOf(plan.prompt_user)
        /\ pc = "done" =>
               \A k \in KeysOf(plan.prompt_user) :
                   Cardinality({i \in PromptCalls : log[i].key = k}) = 1

\* two prompts were answered in key order
C10_Witness ==
    /\ ~apply_force /\ pc = "done"
    /\ Cardinality(PromptCalls) = 2
    /\ \E i, j \in PromptCalls : i < j /\ log[i].key = "app.py" /\ log[j].key = "core/util.py"

\* an auto-update was applied and then a prompt was answered
C10_WitnessAuto ==
    /\ ~apply_force /\ pc = "done"
    /\ PromptCalls # {}
    /\ plan.auto_update # <<>>

(***************************************************************************)
(* C11: apply never creates, modifies or deletes anything under            *)
(* template_root, nor a project file whose key is classified skip or is in *)
(* no list of the plan; it changes only files keyed in auto_update or      *)
(* prompt_user.                                                            *)
(***************************************************************************)
C11_ApplyFrame ==
    [][ /\ template' = template
        /\ \A k \in Keys :
               k \notin KeysOf(plan'.auto_update) \cup KeysOf(plan'.prompt_user)
                   => sha256_file(project', k) = sha256_file(project, k) ]_vars

\* apply changed one file and left alone an untracked one and a skipped one
C11_Witness ==
    /\ pc = "done"
    /\ \E k \in Keys : sha256_file(project, k) # Digest0(k)
    /\ \E k \in DOMAIN project0 :
           /\ \/ k \notin DOMAIN template_meta \cup DOMAIN local_meta
              \/ k \in KeysOf(plan.skip) /\ template[k] # project0[k]
           /\ k \in DOMAIN project
           /\ project[k] = project0[k]

(***************************************************************************)
(* Runs of update                                                          *)
(***************************************************************************)
\* a step of update: every other step sets quiet to "no"
UpdateRan == quiet' # "no"

\* every entry of the plan classifies skip
AllSkip(p, tmeta) ==
    /\ p.auto_update = <<>>
    /\ p.prompt_user = <<>>
    /\ p.template_new = <<>>
    /\ p.template_removed = <<>>
    /\ KeysOf(p.skip) = DOMAIN tmeta

\* C12: an update run without force right after a completed update, with
\* no user edit and no template change in between, builds a plan in which
\* every entry is skip and leaves the project manifest and the project
\* files as the first run left them.
C12_SecondRunIsNoOp ==
    [][ (quiet # "no" /\ UpdateRan /\ ~build_force') =>
            /\ AllSkip(plan', template_meta)
            /\ project' = project
            /\ local_meta' = local_meta
            /\ manifest_exists' = manifest_exists ]_vars

\* a second run without force has happened, over a template that has files,
\* one of which the project holds with other content
C12_Witness ==
    /\ quiet = "again"
    /\ ~build_force
    /\ plan.skip # <<>>
    /\ \E k \in DOMAIN template :
           /\ k \in DOMAIN project
           /\ project[k] # template[k]

\* C13 as stated: a file the user deleted while the manifest tracked it is
\* not recreated by any update run without force, whatever the template did
\* in between; an update run with force recreates it from the template.
C13_DeletedNeverRecreated ==
    [][ UpdateRan =>
            \A k \in user_deleted :
                /\ ~build_force' => k \notin DOMAIN project'
                /\ build_force' /\ k \in DOMAIN template
                       => k \in DOMAIN project' ]_vars

\* C13 amended: a file the user deleted is not recreated by an update run
\* without force as long as the project manifest still tracks it, whether or
\* not the template changed its content; an update run with force recreates
\* it when the template provides it.
C13_TrackedDeletedStaysDeleted ==
    [][ UpdateRan =>
            \A k \in user_deleted :
                /\ ~build_force' /\ k \in DOMAIN local_meta
                       => k \notin DOMAIN project'
                /\ build_force' /\ k \in DOMAIN template
                       => k \in DOMAIN project' ]_vars

\* an update without force has run after the user deleted a tracked file
\* that the template provides: the file is still absent and still tracked
C13_Witness ==
    /\ quiet # "no"
    /\ ~build_force
    /\ \E k \in user_deleted :
           /\ k \in DOMAIN template
           /\ k \in DOMAIN local_meta
           /\ k \notin DOMAIN project

(***************************************************************************)
(* Parent chains                                                           *)
(***************************************************************************)
\* the names declared as parents of name
DeclaredParents(name) ==
    {ParentsOf(configs, name)[i] : i \in 1..Len(ParentsOf(configs, name))}

\* the names reachable from the names of S along parent declarations
RECURSIVE ReachableFrom(_)
ReachableFrom(S) ==
    LET N == S \cup UNION {DeclaredParents(n) : n \in S}
    IN IF N = S THEN S ELSE ReachableFrom(N)

\* no name is its own ancestor
Acyclic == \A n \in Names : n \notin ReachableFrom(DeclaredParents(n))

Occurrences(name, list) == Cardinality({i \in 1..Len(list) : list[i] = name})

Position(name, list) == CHOOSE i \in 1..Len(list) : list[i] = name

\* C15: resolve_template_parents returns for every parent declaration
\* graph, cycles and diamonds included, and what it returns holds every
\* template name reachable from the requested one exactly once and no other.
C15_TerminatesEachOnce ==
    /\ <>returned
    /\ [](returned =>
            \A n \in Names :
                Occurrences(n, resolved) =
                    IF n \in ReachableFrom({template_name}) THEN 1 ELSE 0)

\* the call has returned on a graph with a cycle through the requested
\* template and with a name declared as parent by two templates
C15_Witness ==
    /\ returned
    /\ template_name \in ReachableFrom(DeclaredParents(template_name))
    /\ \E a, b \in Names, c \in Names :
           /\ a # b
           /\ c \in DeclaredParents(a) \cap DeclaredParents(b)
           /\ {a, b, c} \subseteq ReachableFrom({template_name})
           /\ Cardinality({a, b, c}) = Cardinality(Names)

\* C16: the returned sequence ends with the requested template, and when
\* the parent declarations are acyclic every template in it comes after
\* each of its declared parents.
C16_AncestorsFirst ==
    returned =>
        /\ resolved[Len(resolved)] = template_name
        /\ Acyclic =>
               \A n \in ReachableFrom({template_name}) :
                   \A q \in DeclaredParents(n) :
                       Position(q, resolved) < Position(n, resolved)

\* the call has returned on an acyclic graph in which the requested
\* template declares two parents, one of them a parent of the other
C16_Witness ==
    /\ returned
    /\ Acyclic
    /\ \E a, b \in DeclaredParents(template_name) :
           /\ a # b
           /\ a \in DeclaredParents(b)
           /\ Len(resolved) = Cardinality(Names)

\* the nesting of _resolve stays within what seen allows
ResolveDepthBounded == Len(stack) <= Cardinality(Names) + 1

(***************************************************************************)
(* The merged directory                                                    *)
(***************************************************************************)
MetaNames == {"template.yaml", ".gitignore", "tcex.json"}

ManifestPath == <<"manifest.json">>

FileName(rel) == rel[Len(rel)]

TopLevel(rel) == Len(rel) = 1

\* the path a source file is meant to have in the project
DotForm(rel) ==
    IF FileName(rel) = "gitignore"
    THEN SubSeq(rel, 1, Len(rel) - 1) \o <<".gitignore">> ELSE rel

\* the source file is one a template hands to the project: not a
\* meta-file or manifest of the source directory, not an unrequested
\* builder asset
Offered(rel) ==
    ~ /\ TopLevel(rel)
      /\ \/ FileName(rel) \in MetaNames
         \/ rel = ManifestPath
         \/ FileName(rel) = ".appbuilderconfig" /\ ~app_builder

\* the source files through which the parent at position i provides path
Providing(i, path) ==
    IF sources[parents[i]].is_dir
    THEN {r \in sources[parents[i]].files : Offered(r) /\ DotForm(r) = path}
    ELSE {}

Providers(path) == {i \in 1..Len(parents) : Providing(i, path) # {}}

Last(S) == CHOOSE i \in S : \A j \in S : j <= i

\* the source files of the chain, as pairs of parent name and path
SourceFiles ==
    {<<parents[i], r>> : i \in 1..Len(parents), r \in SourcePaths} \cap
        {f \in MergeNames \X SourcePaths :
            f[1] \in DOMAIN sources /\ f[2] \in sources[f[1]].files}

\* the bytes of the source file are in the merged directory or its digest
\* is in the merged manifest
CopiedOrListed(f) ==
    \/ \E k \in DOMAIN merged_dir : merged_dir[k] = SourceFile(f[1], f[2])
    \/ \E k \in DOMAIN merged_entries :
           merged_entries[k].sha256 = Sha256(SourceFile(f[1], f[2]))

\* C14: a path of the merged directory that more than one template of the
\* chain provides (a gitignore seed provides .gitignore; the meta-files of
\* a source directory are not provided) has the content of the last
\* template in the chain that provides it, and the merged manifest's
\* sha256 for the path is the digest of that version.
C14_LastProviderWins ==
    merge_done =>
        \A path \in {DotForm(r) : r \in SourcePaths} :
            Cardinality(Providers(path)) > 1 =>
                /\ path \in DOMAIN merged_dir
                /\ path \in DOMAIN merged_entries
                /\ \E r \in Providing(Last(Providers(path)), path) :
                       LET winner == SourceFile(parents[Last(Providers(path))], r)
                       IN /\ merged_dir[path] = winner
                          /\ merged_entries[path].sha256 = Sha256(winner)

\* both templates of a chain provide app.py and a gitignore seed
C14_Witness ==
    /\ merge_done
    /\ Cardinality(Providers(<<"app.py">>)) > 1
    /\ Cardinality(Providers(<<".gitignore">>)) > 1

\* C17: when _build_merged_template returns, the keys of the merged
\* manifest are the files of the merged directory other than manifest.json,
\* each entry's sha256 and last_commit are the digest of the file's final
\* content and its template_path is the key; manifest.json holds that dict.
C17_ManifestMatchesFiles ==
    merge_done =>
        /\ DOMAIN merged_entries = DOMAIN merged_dir \ {ManifestPath}
        /\ merged_dir[ManifestPath] = <<"json", merged_entries>>
        /\ \A k \in DOMAIN merged_entries :
               /\ merged_entries[k].sha256 = Sha256(merged_dir[k])
               /\ merged_entries[k].last_commit = Sha256(merged_dir[k])
               /\ merged_entries[k].template_path = k

\* a chain of two templates was merged: the second overwrote a file of the
\* first, a source directory held a manifest.json, a seed was renamed
C17_Witness ==
    /\ merge_done
    /\ Cardinality(Providers(<<"app.py">>)) > 1
    /\ \E n \in DOMAIN sources : ManifestPath \in sources[n].files
    /\ <<".gitignore">> \in DOMAIN merged_entries
    /\ Cardinality(DOMAIN merged_entries) > 2

\* C18 as stated: no file named template.yaml, .gitignore or tcex.json of
\* any parent, wherever it lies in the source tree, is copied into the
\* merged directory or listed in its manifest; .appbuilderconfig is copied
\* only when app_builder is set.
C18_MetaFilesNeverCopied ==
    \A f \in SourceFiles :
        /\ FileName(f[2]) \in MetaNames => ~CopiedOrListed(f)
        /\ FileName(f[2]) = ".appbuilderconfig" /\ CopiedOrListed(f) => app_builder

\* C18 amended: no file named template.yaml, .gitignore or tcex.json at the
\* top level of a parent's source directory is copied or listed; a file of
\* that name in a subdirectory is copied like any other file; the top-level
\* .appbuilderconfig is copied only when app_builder is set.
C18_TopLevelMetaFilesNeverCopied ==
    /\ \A f \in SourceFiles :
           /\ TopLevel(f[2]) /\ FileName(f[2]) \in MetaNames => ~CopiedOrListed(f)
           /\ FileName(f[2]) = ".appbuilderconfig" /\ CopiedOrListed(f)
                  => app_builder
    /\ merge_done =>
           \A path \in SourcePaths :
               ~TopLevel(path) /\ Providers(path) # {} =>
                   merged_dir[path] = SourceFile(parents[Last(Providers(path))], path)

\* the merged directory is returned for a parent that has the meta-files
\* and a builder asset at its top level next to app.py, with app_builder
\* unset, and a tcex.json in a subdirectory, which was copied
C18_Witness ==
    /\ merge_done
    /\ ~app_builder
    /\ <<"app.py">> \in DOMAIN merged_dir
    /\ <<"core", "tcex.json">> \in DOMAIN merged_dir
    /\ \E n \in DOMAIN sources :
           {<<"template.yaml">>, <<".gitignore">>, <<".appbuilderconfig">>,
            <<"app.py">>} \subseteq sources[n].files

(***************************************************************************)
(* The template cache                                                      *)
(***************************************************************************)
\* _cache_is_stale has just run in this call of ensure_cache
StaleChecked ==
    \/ cache_pc \in {"download", "raised"}
    \/ cache_pc = "returned" /\ ~download_called

\* the remote timestamp was obtained and is an ISO 8601 timestamp
Parsed(date) == date.kind \in {"aware", "naive"}

\* C19: _cache_is_stale reports stale when the cache directory is missing;
\* when it exists it reports fresh, raising nothing, if the remote
\* timestamp was not obtained or does not parse, and otherwise reports stale
\* exactly when the remote timestamp is later than the directory's mtime;
\* ensure_cache calls _download_and_extract exactly when stale is reported.
C19_FailOpenFreshness ==
    /\ StaleChecked =>
           /\ ~CacheExists(cache0) => stale_result = "stale"
           /\ CacheExists(cache0) /\ ~Parsed(remote_date)
                  => stale_result = "fresh"
           /\ CacheExists(cache0) /\ Parsed(remote_date)
                  => stale_result =
                         IF remote_date.t > cache_mtime THEN "stale" ELSE "fresh"
    /\ cache_pc \in {"returned", "failed"} =>
           (download_called <=> stale_result = "stale")

\* C20: when _download_and_extract fails or is interrupted at any of its
\* steps while a working cache existed, the cache directory is afterwards
\* the complete previous cache or the complete new snapshot.
C20_AtomicRefresh ==
    cache_pc = "failed" /\ cache0 = "previous" =>
        cache_dir \in {"previous", "new"}

(***************************************************************************)
(* update step by step: migration, plan, manifest, cleanup                 *)
(***************************************************************************)
\* the step that is the call of _migrate_legacy_manifest
MigrationStep == pc = "migrate" /\ pc' = "start"

\* the project has a legacy manifest and no manifest.json
OnlyLegacy == legacy_exists /\ ~manifest_exists

\* C21: the legacy migration acts only when the project has
\* .template_manifest.json and no manifest.json, and then writes manifest.json
\* and deletes the legacy file; otherwise it changes nothing: a manifest.json
\* is never rewritten and a legacy file next to it stays; in a sequence of
\* updates without user edits no second migration happens.
C21_MigrationOnce ==
    [][MigrationStep =>
          IF OnlyLegacy
          THEN ~migrated /\ manifest_exists' /\ ~legacy_exists'
          ELSE UNCHANGED <<local_meta, manifest_exists, legacy_exists, project>>
      ]_vars

\* a later invocation has passed the migration step of a migrated project
C21_Witness ==
    /\ migrated
    /\ base.exists
    /\ pc = "start"
    /\ ~legacy_exists

\* this invocation began with only the legacy manifest and has migrated it
MigratedNow == aborts = 0 /\ base.legacy /\ ~base.exists /\ base.project = project0

Completed == pc \in {"copied", "ended"}

\* C23: after an update that completes, the project's manifest.json is the
\* merged template manifest, whatever the prompts were answered; after a
\* forced one every entry's sha256 is the digest of the project file at
\* its key.
C23_ManifestAfterUpdate ==
    Completed =>
        /\ manifest_exists
        /\ local_meta = template_meta
        /\ apply_force =>
               \A k \in DOMAIN local_meta :
                   local_meta[k].sha256 = sha256_file(project, k)

\* a completed update in which a prompt was declined and a key had left
\* the template
C23_Witness ==
    /\ pc = "ended"
    /\ \E i \in PromptCalls : ~IsYes(log[i].response)
    /\ \E k \in DOMAIN base.meta : k \notin DOMAIN template_meta

\* a completed forced update that wrote a file
C23_WitnessForced ==
    /\ pc = "ended"
    /\ apply_force
    /\ \E i \in 1..Len(log) : log[i].op = "copy_from_template"

\* the invocation of update is over: it returned or its error propagated
InvocationOver == pc \in {"ended", "aborted"}

\* C24: every invocation of update comes to an end, and at its end the
\* merged template directory it created is destroyed, on every path:
\* completion, declined prompts, and an error of any step.
C24_MergedDirDestroyed ==
    /\ [](InvocationOver => ~merged_exists)
    /\ (pc = "enter") ~> InvocationOver

\* the positions of the log at which copy_from_template found no source
\* file: the merged directory does not change while apply runs
FailedCopies ==
    {i \in 1..Len(log) :
        log[i].op = "copy_from_template" /\ ~exists(template, log[i].key)}

\* the file operation at position i of the log still shows in the project
StillApplied(i) ==
    IF log[i].op = "copy_from_template"
    THEN sha256_file(project, log[i].key) = sha256_file(template, log[i].key)
    ELSE log[i].op = "remove_file" => ~exists(project, log[i].key)

\* manifest.json as the migration step of the first invocation left it
ManifestAfterMigration ==
    IF base.legacy /\ ~base.exists
    THEN [exists |-> TRUE,
          meta |-> [k \in {j \in DOMAIN template_meta : exists(base.project, j)} |->
                      IF sha256_file(base.project, k) = template_meta[k].sha256
                      THEN template_meta[k]
                      ELSE [last_commit |-> LegacyMigrated,
                            sha256 |-> sha256_file(base.project, k),
                            template_path |-> k]]]
    ELSE [exists |-> base.exists, meta |-> base.meta]

\* C25: when copy_from_template finds no source file during apply, the
\* destination is as it was before (not created, not modified), the error
\* ends the invocation without a retry, the changes applied before it stay,
\* no later entry of the plan is applied, and the project's manifest.json
\* is not overwritten.
C25_FailedCopyStopsApply ==
    \A i \in FailedCopies :
        /\ i = Len(log)
        /\ pc \in {"raised", "aborted"}
        /\ sha256_file(project, log[i].key) = sha256_file(project0, log[i].key)
        /\ \A j \in 1..(i - 1) :
               log[j].op \in FileOps =>
                   log[j].key # log[i].key /\ StillApplied(j)
        /\ aborts = 0 =>
               /\ manifest_exists = ManifestAfterMigration.exists
               /\ local_meta = ManifestAfterMigration.meta

\* the invocation ended with a failed copy onto an existing file, after an
\* earlier entry was applied, and the manifest is not the template's
C25_Witness ==
    /\ pc = "aborted"
    /\ FailedCopies # {}
    /\ \E j \in 1..(Len(log) - 1) : log[j].op \in FileOps
    /\ exists(project0, log[Len(log)].key)
    /\ manifest_exists /\ local_meta # template_meta

\* what has been answered for k in the series, this invocation included
SaidNow(k) == SaidAfter(said[k], k, log)

\* every key was answered the same way each time it was asked
SameAnswers == \A k \in Keys : SaidNow(k) # "mixed"

\* the project files an uninterrupted update leaves, begun where the series
\* began and given the answers of the series (N where nothing was asked)
Uninterrupted ==
    LET m == migrate_legacy_manifest(template_meta, base.project, base.exists,
                                     base.legacy, base.meta)
        p == build(template_meta, m.meta, base.project, build_force)
        answers == [k \in Keys |-> IF SaidNow(k) = "y" THEN <<"y">> ELSE <<"N">>]
    IN apply(p, MergedFiles(template_meta), base.project, apply_force, answers).tree

\* C26: when update is run again after an invocation was aborted, with the
\* same templates and no user edits, a file which the uninterrupted update
\* leaves alone is at no time overwritten or deleted, and with the same
\* answers the re-run ends with the project files and the manifest of the
\* uninterrupted update.
C26_RerunConverges ==
    aborts > 0 /\ SameAnswers =>
        LET whole == Uninterrupted
        IN /\ \A k \in Keys :
                  sha256_file(project, k) \in
                      {sha256_file(base.project, k), sha256_file(whole, k)}
           /\ pc = "ended" =>
                  /\ project = whole
                  /\ manifest_exists
                  /\ local_meta = template_meta

\* a re-run has ended after an invocation that was aborted in the middle of
\* apply, and the re-run had files left to write
C26_Witness ==
    /\ pc = "ended"
    /\ aborts = 1
    /\ SameAnswers
    /\ project0 # base.project
    /\ project # project0

(***************************************************************************)
(* SafeFileOps.copy_from_template                                          *)
(***************************************************************************)
\* the positions of the log at which copy_from_template found its source
\* file and returned
Copies ==
    {i \in 1..Len(log) :
        log[i].op = "copy_from_template" /\ exists(template, log[i].key)}

\* C27: after every copy_from_template that succeeds, onto an existing
\* destination or a new one, the destination has the digest of the source
\* file, and the source file is unchanged.
C27_CopyIsExact ==
    \A i \in Copies :
        /\ sha256_file(project, log[i].key) = sha256_file(template, log[i].key)
        /\ sha256_file(template, log[i].key) = template_meta[log[i].key].sha256

\* copies onto an existing file of another content and onto a new path
C27_Witness ==
    /\ \E i \in Copies :
           /\ exists(project0, log[i].key)
           /\ sha256_file(project0, log[i].key) # sha256_file(template, log[i].key)
    /\ \E i \in Copies : ~exists(project0, log[i].key)

(***************************************************************************)
(* a declined prompt and the update after it                               *)
(***************************************************************************)
\* the template keys whose prompt this invocation answered with no
DeclinedNow ==
    {log[i].key : i \in {j \in PromptCalls : ~IsYes(log[j].response)}}
        \cap DOMAIN template_meta

\* the template keys whose prompt the completed update before this
\* invocation answered with no
DeclinedBefore == {k \in DOMAIN template_meta : said[k] = "declined"}

\* apply of this invocation has been entered on a plan built without force
Applying == pc \in {"auto", "prompt", "forced", "done", "copied", "ended"}

\* C28: when an update completes in which the overwrite prompt of a key was
\* answered N, manifest.json has the template's last_commit for the key and
\* the file has the user's content; the next update, with the same
\* templates and without force, has the key in skip only, does not ask
\* about it and leaves the file as it is.
C28_DeclineIsRemembered ==
    /\ pc = "ended" =>
           \A k \in DeclinedNow :
               /\ k \in DOMAIN local_meta
               /\ local_meta[k].last_commit = template_meta[k].last_commit
               /\ sha256_file(project, k) = sha256_file(project0, k)
    /\ Applying /\ ~build_force =>
           \A k \in DeclinedBefore :
               /\ Dispositions(k) = {"skip"}
               /\ \A i \in 1..Len(log) : log[i].key # k
               /\ sha256_file(project, k) = sha256_file(base.project, k)

\* the update after a declined prompt has ended and the file still has the
\* user's content, which is not the template's
C28_Witness ==
    /\ pc = "ended"
    /\ ~build_force
    /\ \E k \in DeclinedBefore :
           /\ exists(project, k)
           /\ sha256_file(project, k) # template_meta[k].sha256

(***************************************************************************)
(* ensure_cache returns a directory                                        *)
(***************************************************************************)
\* C29: whenever ensure_cache returns without raising, the cache directory
\* of the branch exists: when a cache was there already, and when it was
\* missing and a download was made, an archive without entries included.
C29_ReturnedCacheExists ==
    cache_pc = "returned" => CacheExists(cache_dir)

(***************************************************************************)
(* the Planner of planner.py and the Planner of tcv_helper.py              *)
(***************************************************************************)
\* the plan tcv_helper.py builds for the input of the plan built
tcv_plan == tcv_build(template_meta, local_meta, project0, build_force)

\* the dispositions in which tcv_helper.py's plan has a key
tcv_Dispositions(k) ==
    {d \in {"skip", "auto_update", "prompt_user"} : k \in KeysOf(tcv_plan[d])}

\* a key under core/ or ui/, in both manifests with different last_commit,
\* whose project file exists with a digest that is not the template's
Diverged(k) ==
    /\ k \in InBoth
    /\ template_meta[k].last_commit # local_meta[k].last_commit
    /\ startswith(k, {"core/", "ui/"})
    /\ Digest0(k) # None
    /\ Digest0(k) # template_meta[k].sha256

\* a plan list without the entries of the keys in S
Without(list, S) == SelectSeq(list, LAMBDA e : e[1] \notin S)

\* the two plans are the same apart from the keys in S
SamePlanApartFrom(S) ==
    \A d \in DOMAIN Plan : Without(plan[d], S) = Without(tcv_plan[d], S)

\* the response prompt_fn gave for k, none if it was not asked
Answered(k) ==
    IF \E i \in PromptCalls : log[i].key = k
    THEN log[CHOOSE i \in PromptCalls : log[i].key = k].response
    ELSE <<>>

\* the calls of file_ops that apply of planner.py has made
FileOpCalls ==
    {<<log[i].op, log[i].key>> : i \in {j \in 1..Len(log) : log[j].op \in FileOps}}

\* apply of planner.py made the calls apply of tcv_helper.py makes
SameFileOps ==
    pc = "done" =>
        FileOpCalls = tcv_apply(plan, apply_force, [k \in Keys |-> Answered(k)])

\* C30 as stated: the two build operations return the same plan except for
\* the keys under core/ or ui/ that are in both manifests with different
\* last_commit and whose project file exists with another digest than the
\* template's, which planner.py puts in prompt_user and tcv_helper.py in
\* auto_update; the two apply operations make the same file operations on
\* a plan.
C30_PlannersAgree ==
    /\ PlanBuilt =>
           /\ SamePlanApartFrom({k \in Keys : Diverged(k)})
           /\ \A k \in Keys :
                  Diverged(k) => /\ Dispositions(k) = {"prompt_user"}
                                 /\ tcv_Dispositions(k) = {"auto_update"}
    /\ SameFileOps

\* C30, amended: the difference is there for builds without force only;
\* with force the two plans are the same.
C30_PlannersAgreeUnlessForced ==
    /\ PlanBuilt =>
           /\ SamePlanApartFrom({k \in Keys : Diverged(k) /\ ~build_force})
           /\ \A k \in Keys :
                  Diverged(k) /\ ~build_force =>
                      /\ Dispositions(k) = {"prompt_user"}
                      /\ tcv_Dispositions(k) = {"auto_update"}
    /\ SameFileOps

\* apply has run on a plan in which the two implementations differ, and on
\* a plan built with force from an input with such a key
C30_Witness ==
    /\ pc = "done"
    /\ Diverged("core/util.py")
    /\ ~build_force
    /\ FileOpCalls # {}
    /\ plan # tcv_plan

\* a forced build for an input with a diverged key under core/
C30_WitnessForced ==
    /\ pc = "done"
    /\ Diverged("core/util.py")
    /\ build_force
    /\ plan = tcv_plan

====
